---- MODULE Spec2Model ----
(***************************************************************************)
(* A model of ivadomed/prepare_dataset.py: the mid-slice averaging, the    *)
(* label extraction, the Gaussian kernel and heatmap builders, the         *)
(* multi-point merger and the per-subject batch pipeline.                  *)
(*                                                                         *)
(* Real values are fixed point: a value v stands for v / VScale, so 1.0 is *)
(* VScale and the 8-bit peak 255 is 255 * VScale.  A mean is a fraction   *)
(* num/den, NaN being 0/0; an array that is NaN throughout has nan set.    *)
(* Arrays are functions over 0-based index ranges, as in numpy.            *)
(***************************************************************************)
EXTENDS Integers, Sequences, FiniteSets, TLC

VARIABLES
    \* get_midslice_average
    vol, ind, numb_of_slice, window, mid, sliceState,
    \* mask2label
    arr, aim, list_label_image, labelState,
    \* gkern / heatmap_generation
    image, kernel_size, kernel, hmap, kernState,
    \* label2maskmap_gt / extract_all
    heatOp, data, shape, c_dx, c_dy, normalizeFlag, fpLoss, Z,
    list_coord_label, shape_im, final, heatState,
    \* extract_mid_slice_and_convert_coordinates_to_heatmaps
    t, i, pc, err, written, list_points, bids, pipeAim, pipeMid

sliceVars == <<vol, ind, numb_of_slice, window, mid, sliceState>>
labelVars == <<arr, aim, list_label_image, labelState>>
kernVars == <<image, kernel_size, kernel, hmap, kernState>>
heatVars == <<heatOp, data, shape, c_dx, c_dy, normalizeFlag, fpLoss, Z,
              list_coord_label, shape_im, final, heatState>>
pipeVars == <<t, i, pc, err, written, list_points, bids, pipeAim, pipeMid>>
vars == <<sliceVars, labelVars, kernVars, heatVars, pipeVars>>

\* ------------------------------------------------------------------ bounds
MaxExtent == 8
MaxPix == 1
MaxLabX == 2
MaxDim == 2
MaxPoints == 2
MaxSubjects == 2

\* ----------------------------------------------------------------- helpers
NaN == [num |-> 0, den |-> 0]
IsNaN(m) == m.den = 0
VScale == 10 * 100

\* g[0] + ... + g[n - 1].
RECURSIVE SumUpTo(_, _)
SumUpTo(g, n) == IF n = 0 THEN 0 ELSE g[n - 1] + SumUpTo(g, n - 1)

SetMax(S) == CHOOSE x \in S : \A y \in S : y <= x
SetMin(S) == CHOOSE x \in S : \A y \in S : x <= y

\* Python's normalisation of one bound of a slice a[lo:hi] over a length.
PySliceBound(k, len) ==
    IF k < 0 THEN (IF k + len < 0 THEN 0 ELSE k + len)
    ELSE IF k > len THEN len ELSE k

\* The indices arr[lo:hi] selects along an axis of the given length.
PySlice(lo, hi, len) ==
    {j \in 0..(len - 1) : PySliceBound(lo, len) <= j /\ j < PySliceBound(hi, len)}

\* ----------------------------------------------------- get_midslice_average
\* The volume is one pixel per slice along axis 0: vol[k + 1] is arr[k, :, :].
Extent(v) == Len(v)

\* The half-width after the two clamps of lines 198-202.
NumbOfSlice(extent, index) ==
    LET n1 == IF index + 3 < extent THEN extent - index ELSE 3
    IN  IF index - n1 < 0 THEN index ELSE n1

\* The slices of arr[ind - n : ind + n, :, :].
SliceWindow(extent, index) ==
    LET n == NumbOfSlice(extent, index)
    IN  PySlice(index - n, index + n, extent)

\* np.mean(sub, 0): the sum over the count; over an empty range 0/0, NaN.
MeanOver(v, W) ==
    [num |-> SumUpTo([k \in 0..(Len(v) - 1) |-> IF k \in W THEN v[k + 1] ELSE 0], Len(v)),
     den |-> Cardinality(W)]

InitSliceIdle ==
    /\ vol = <<>> /\ ind = 0 /\ numb_of_slice = 0
    /\ window = {} /\ mid = NaN /\ sliceState = "idle"

InitSlice ==
    /\ \E e \in 1..MaxExtent : vol \in [1..e -> 0..MaxPix]
    /\ ind \in 0..(MaxExtent - 1)
    /\ ind < Extent(vol)
    /\ numb_of_slice = 3
    /\ window = {}
    /\ mid = NaN
    /\ sliceState = "ready"

GetMidsliceAverage ==
    /\ sliceState = "ready"
    /\ numb_of_slice' = NumbOfSlice(Extent(vol), ind)
    /\ window' = SliceWindow(Extent(vol), ind)
    /\ mid' = MeanOver(vol, SliceWindow(Extent(vol), ind))
    /\ sliceState' = "done"
    /\ UNCHANGED <<vol, ind>>
    /\ UNCHANGED <<labelVars, kernVars, heatVars, pipeVars>>

NextSlice == GetMidsliceAverage

\* ------------------------------------------------------------- mask2label
\* A label volume: shape <<nx, ny, nz>> and the voxel values by coordinate.
LabelValues == {-1, 0, 1, 3, 25, 30}
Aims == {"full", "c2", "other"}

Coords(shp) == (0..(shp[1] - 1)) \X (0..(shp[2] - 1)) \X (0..(shp[3] - 1))
Volumes(shp, values) == [shape : {shp}, at : [Coords(shp) -> values]]

\* The coordinate at position f of a row-major (C order) scan.
Unravel(f, shp) ==
    <<f \div (shp[2] * shp[3]), (f \div shp[3]) % shp[2], f % shp[3]>>

\* arr.nonzero(): the coordinates of the non-zero voxels, in scan order.
RECURSIVE NonZeroFrom(_, _)
NonZeroFrom(a, f) ==
    IF f >= a.shape[1] * a.shape[2] * a.shape[3] THEN <<>>
    ELSE LET c == Unravel(f, a.shape)
         IN  (IF a.at[c] # 0 THEN <<c>> ELSE <<>>) \o NonZeroFrom(a, f + 1)

NonZero(a) == NonZeroFrom(a, 0)

\* The test of lines 170-175 on a voxel value.
Keeps(policy, v) ==
    IF policy = "full" THEN v < 30 /\ v # 1
    ELSE IF policy = "c2" THEN v = 3
    ELSE FALSE

\* list.sort(key=...): stable, ascending; e goes after every key <= its own.
RECURSIVE InsertByKey(_, _)
InsertByKey(s, e) ==
    IF s = <<>> THEN <<e>>
    ELSE IF s[Len(s)][4] <= e[4] THEN Append(s, e)
    ELSE Append(InsertByKey(SubSeq(s, 1, Len(s) - 1), e), s[Len(s)])

RECURSIVE SortByValue(_)
SortByValue(s) ==
    IF s = <<>> THEN <<>>
    ELSE InsertByKey(SortByValue(SubSeq(s, 1, Len(s) - 1)), s[Len(s)])

mask2label(a, policy) ==
    LET nz == NonZero(a)
        entry(k) == <<nz[k][1], nz[k][2], nz[k][3], a.at[nz[k]]>>
        kept == SelectSeq([k \in 1..Len(nz) |-> entry(k)],
                          LAMBDA e : Keeps(policy, e[4]))
    IN  SortByValue(kept)

InitLabelIdle ==
    /\ arr = [shape |-> <<0, 0, 0>>, at |-> <<>>] /\ aim = "full"
    /\ list_label_image = <<>> /\ labelState = "idle"

InitLabel ==
    /\ arr \in Volumes(<<MaxLabX, 1, 2>>, LabelValues)
    /\ aim \in Aims
    /\ list_label_image = <<>>
    /\ labelState = "ready"

Mask2Label ==
    /\ labelState = "ready"
    /\ list_label_image' = mask2label(arr, aim)
    /\ labelState' = "done"
    /\ UNCHANGED <<arr, aim>>
    /\ UNCHANGED <<sliceVars, kernVars, heatVars, pipeVars>>

NextLabel == Mask2Label

\* ------------------------------------------------------- 2-D arrays
\* A 2-D array: rows, cols, and numerators at[<<r, c>>] over the common
\* denominator den (an integer array has den 1, a fixed-point one VScale).
Cells(h, w) == (0..(h - 1)) \X (0..(w - 1))
Array2(h, w, f, d) == [rows |-> h, cols |-> w, at |-> f, den |-> d, nan |-> FALSE]
CellsOf(a) == Cells(a.rows, a.cols)
ValuesOf(a) == {a.at[p] : p \in CellsOf(a)}
HasNaN(a) == a.nan
AllNaN(h, w) ==
    [rows |-> h, cols |-> w, at |-> [p \in Cells(h, w) |-> 0], den |-> 1, nan |-> TRUE]

\* --------------------------------------------------------------- normalize
\* (arr - mi) / (ma - mi); a constant array gives 0/0 in every cell, and
\* the max or min of an array holding NaN is NaN: both are NaN throughout.
normalize(a) ==
    IF HasNaN(a) THEN AllNaN(a.rows, a.cols)
    ELSE LET ma == SetMax(ValuesOf(a))
             mi == SetMin(ValuesOf(a))
         IN  IF ma = mi THEN AllNaN(a.rows, a.cols)
             ELSE Array2(a.rows, a.cols,
                         [p \in CellsOf(a) |-> ((a.at[p] - mi) * VScale) \div (ma - mi)],
                         VScale)

\* ------------------------------------------------------------------- gkern
\* scipy.stats.norm.cdf at m/60, m = 0..60, in units of 1/4000.
NormCdfTable ==
  <<
    2000, 2027, 2053, 2080, 2106, 2133, 2159, 2186, 2212, 2238, 2265, 2291,
    2317, 2343, 2369, 2395, 2421, 2446, 2472, 2497, 2522, 2547, 2572, 2597,
    2622, 2646, 2670, 2695, 2719, 2742, 2766, 2789, 2812, 2835, 2858, 2881,
    2903, 2925, 2947, 2969, 2990, 3011, 3032, 3053, 3073, 3093, 3113, 3133,
    3153, 3172, 3191, 3209, 3228, 3246, 3264, 3281, 3299, 3316, 3333, 3349,
    3365
  >>

\* norm.cdf(x[j]) for x = np.linspace(0, 1, kernlen + 1); kernlen divides 60.
NormCdf(j, kernlen) == NormCdfTable[(j * 60) \div kernlen + 1]

\* np.diff(norm.cdf(x)).
Kern1d(kernlen) ==
    [j \in 0..(kernlen - 1) |-> NormCdf(j + 1, kernlen) - NormCdf(j, kernlen)]

\* np.outer(kern1d, kern1d).
Kern2d(kernlen) ==
    LET kern1d == Kern1d(kernlen)
    IN  [p \in Cells(kernlen, kernlen) |-> kern1d[p[1]] * kern1d[p[2]]]

\* normalize(kern2d / kern2d.sum()): the sum is the common denominator.
gkern(kernlen) ==
    LET kern2d == Kern2d(kernlen)
        row(r) == SumUpTo([c \in 0..(kernlen - 1) |-> kern2d[<<r, c>>]], kernlen)
        total == SumUpTo([r \in 0..(kernlen - 1) |-> row(r)], kernlen)
    IN  normalize(Array2(kernlen, kernlen, kern2d, total))

\* ------------------------------------------------------ heatmap_generation
\* scipy.signal.convolve(image, kernel), mode 'full'.
Convolve(img, ker) ==
    LET h == img.rows + ker.rows - 1
        w == img.cols + ker.cols - 1
        n == img.rows * img.cols
        term(p, q) == IF <<p[1] - q[1], p[2] - q[2]>> \in CellsOf(ker)
                      THEN img.at[q] * ker.at[<<p[1] - q[1], p[2] - q[2]>>]
                      ELSE 0
        cell(p) == SumUpTo([f \in 0..(n - 1) |->
                              term(p, <<f \div img.cols, f % img.cols>>)], n)
    IN  IF HasNaN(ker) \/ HasNaN(img)
        THEN AllNaN(h, w)
        ELSE Array2(h, w, [p \in Cells(h, w) |-> cell(p)], img.den * ker.den)

heatmap_generation(img, ksize) == normalize(Convolve(img, gkern(ksize)))

KernLens == {1, 2, 3, 4, 5, 6, 10}
ImageShapes == {<<1, 1>>, <<1, 2>>, <<2, 2>>}
EmptyArray == Array2(0, 0, <<>>, 1)

InitKernIdle ==
    /\ image = EmptyArray /\ kernel_size = 0
    /\ kernel = EmptyArray /\ hmap = EmptyArray /\ kernState = "idle"

InitKern ==
    /\ \E s \in ImageShapes :
         image \in {Array2(s[1], s[2], f, 1) : f \in [Cells(s[1], s[2]) -> 0..1]}
    /\ kernel_size \in KernLens
    /\ kernel = EmptyArray
    /\ hmap = EmptyArray
    /\ kernState = "ready"

HeatmapGeneration ==
    /\ kernState = "ready"
    /\ kernel' = gkern(kernel_size)
    /\ hmap' = heatmap_generation(image, kernel_size)
    /\ kernState' = "done"
    /\ UNCHANGED <<image, kernel_size>>
    /\ UNCHANGED <<sliceVars, labelVars, heatVars, pipeVars>>

NextKern == HeatmapGeneration

\* ------------------------------------------------------- label2maskmap_gt
\* radius is 10, the default of line 19, which every caller leaves as it is.
\* floor(255 * exp(-k / (2 * radius))) for k = 0..110; 0 from k = 111 on.
GaussByteTable ==
  <<
    255, 242, 230, 219, 208, 198, 188, 179, 170, 162, 154, 147,
    139, 133, 126, 120, 114, 108, 103, 98, 93, 89, 84, 80,
    76, 73, 69, 66, 62, 59, 56, 54, 51, 48, 46, 44,
    42, 40, 38, 36, 34, 32, 31, 29, 28, 26, 25, 24,
    23, 22, 20, 19, 18, 18, 17, 16, 15, 14, 14, 13,
    12, 12, 11, 10, 10, 9, 9, 8, 8, 8, 7, 7,
    6, 6, 6, 5, 5, 5, 5, 4, 4, 4, 4, 4,
    3, 3, 3, 3, 3, 2, 2, 2, 2, 2, 2, 2,
    2, 1, 1, 1, 1, 1, 1, 1, 1, 1, 1, 1,
    1, 1, 1
  >>

\* floor(1000 * exp(-k / (2 * radius))) for k = 0..138; 0 from k = 139 on.
GaussUnitTable ==
  <<
    1000, 951, 904, 860, 818, 778, 740, 704, 670, 637, 606, 576,
    548, 522, 496, 472, 449, 427, 406, 386, 367, 349, 332, 316,
    301, 286, 272, 259, 246, 234, 223, 212, 201, 192, 182, 173,
    165, 157, 149, 142, 135, 128, 122, 116, 110, 105, 100, 95,
    90, 86, 82, 78, 74, 70, 67, 63, 60, 57, 55, 52,
    49, 47, 45, 42, 40, 38, 36, 35, 33, 31, 30, 28,
    27, 25, 24, 23, 22, 21, 20, 19, 18, 17, 16, 15,
    14, 14, 13, 12, 12, 11, 11, 10, 10, 9, 9, 8,
    8, 7, 7, 7, 6, 6, 6, 5, 5, 5, 4, 4,
    4, 4, 4, 3, 3, 3, 3, 3, 3, 2, 2, 2,
    2, 2, 2, 2, 2, 1, 1, 1, 1, 1, 1, 1,
    1, 1, 1, 1, 1, 1, 1
  >>

TableAt(tab, k) == IF k + 1 <= Len(tab) THEN tab[k + 1] ELSE 0

\* multivariate_gaussian with Sigma = diag(radius, radius): fac * radius, the
\* squared distance of grid point (X, Y) = (col, row) from mu = (x, y).
SquaredDistance(p, x, y) == (p[2] - x) * (p[2] - x) + (p[1] - y) * (p[1] - y)

\* The mutation of label2maskmap_gt that reads x, y = data[1], data[2].
label2maskmap_gt_swapped(pt, shp, dx, dy, unit, loss) ==
    LET M == shp[3]
        N == shp[2]
        d == IF Len(pt) <= 2 THEN <<0, pt[1], pt[2]>> ELSE pt
        x == d[2] + dx
        y == d[3] + dy
        d2min == SetMin({SquaredDistance(p, x, y) : p \in Cells(N, M)})
        rel(p) == SquaredDistance(p, x, y) - d2min
        byte(p) == IF rel(p) = 0 /\ d2min > 0
                   THEN TableAt(GaussByteTable, 0) - loss
                   ELSE TableAt(GaussByteTable, rel(p))
    IN  IF unit
        THEN Array2(N, M, [p \in Cells(N, M) |-> TableAt(GaussUnitTable, rel(p))], VScale)
        ELSE Array2(N, M, [p \in Cells(N, M) |-> byte(p) * VScale], VScale)

\* Z * (1 / max(Z)) is exp(-(d2 - d2min) / (2 * radius)): the density's
\* factor cancels.  In 8-bit mode the product is truncated to uint8; off the
\* grid the peak's product z * (1/z) may round below 1.0 and truncate to 254
\* (loss = 1); on the grid z = 1/N and the product is exactly 1.0.
label2maskmap_gt(pt, shp, dx, dy, unit, loss) ==
    LET M == shp[3]
        N == shp[2]
        d == IF Len(pt) <= 2 THEN <<0, pt[1], pt[2]>> ELSE pt
        x == d[3] + dx
        y == d[2] + dy
        d2min == SetMin({SquaredDistance(p, x, y) : p \in Cells(N, M)})
        rel(p) == SquaredDistance(p, x, y) - d2min
        byte(p) == IF rel(p) = 0 /\ d2min > 0
                   THEN TableAt(GaussByteTable, 0) - loss
                   ELSE TableAt(GaussByteTable, rel(p))
    IN  IF unit
        THEN Array2(N, M, [p \in Cells(N, M) |-> TableAt(GaussUnitTable, rel(p))], VScale)
        ELSE Array2(N, M, [p \in Cells(N, M) |-> byte(p) * VScale], VScale)

\* ------------------------------------------------------------- extract_all
\* final[0, w, h] = max(final[0, w, h], mask[w, h]) over the points, from zeros.
RECURSIVE MergeFrom(_, _, _, _, _)
MergeFrom(acc, pts, losses, shape_tmp, k) ==
    IF k > Len(pts) THEN acc
    ELSE LET mask == label2maskmap_gt(pts[k], shape_tmp, 0, 0, FALSE, losses[k])
             merged == [p \in CellsOf(acc) |->
                          IF acc.at[p] >= mask.at[p] THEN acc.at[p] ELSE mask.at[p]]
         IN  MergeFrom([acc EXCEPT !.at = merged], pts, losses, shape_tmp, k + 1)

\* The mutation of extract_all that adds the heatmaps instead of taking max.
RECURSIVE SumFrom(_, _, _, _, _)
SumFrom(acc, pts, losses, shape_tmp, k) ==
    IF k > Len(pts) THEN acc
    ELSE LET mask == label2maskmap_gt(pts[k], shape_tmp, 0, 0, FALSE, losses[k])
             added == [p \in CellsOf(acc) |-> acc.at[p] + mask.at[p]]
         IN  SumFrom([acc EXCEPT !.at = added], pts, losses, shape_tmp, k + 1)

extract_all_sum(pts, shp_im, losses) ==
    LET shape_tmp == <<1, shp_im[1], shp_im[2]>>
        zeros == Array2(shp_im[1], shp_im[2],
                        [p \in Cells(shp_im[1], shp_im[2]) |-> 0], VScale)
    IN  SumFrom(zeros, pts, losses, shape_tmp, 1)

extract_all(pts, shp_im, losses) ==
    LET shape_tmp == <<1, shp_im[1], shp_im[2]>>
        zeros == Array2(shp_im[1], shp_im[2],
                        [p \in Cells(shp_im[1], shp_im[2]) |-> 0], VScale)
    IN  MergeFrom(zeros, pts, losses, shape_tmp, 1)

\* Whether the (shifted) point of a call falls on a cell of the grid.
OnGrid(pt, shp, dx, dy) ==
    LET d == IF Len(pt) <= 2 THEN <<0, pt[1], pt[2]>> ELSE pt
    IN  <<d[2] + dy, d[3] + dx>> \in Cells(shp[2], shp[3])

Dims == 1..MaxDim
Coord == 0..MaxDim
Shifts == {-1, 0, 1}
Points2 == Coord \X Coord
Points3 == {0} \X Coord \X Coord
LabelCoord == 0..(MaxDim - 1)
LabelPoints == {0} \X LabelCoord \X LabelCoord

InitHeatIdle ==
    /\ heatOp = "idle" /\ data = <<>> /\ shape = <<>> /\ c_dx = 0 /\ c_dy = 0
    /\ normalizeFlag = FALSE /\ fpLoss = <<>> /\ Z = EmptyArray
    /\ list_coord_label = <<>> /\ shape_im = <<>> /\ final = EmptyArray
    /\ heatState = "idle"

InitLabel2MaskMap ==
    /\ heatOp = "label2maskmap_gt"
    /\ data \in Points2 \cup Points3
    /\ shape \in {1} \X Dims \X Dims
    /\ c_dx \in Shifts
    /\ c_dy \in Shifts
    /\ normalizeFlag \in BOOLEAN
    /\ fpLoss \in [1..1 -> 0..1]
    /\ (OnGrid(data, shape, c_dx, c_dy) \/ normalizeFlag) => fpLoss[1] = 0
    /\ Z = EmptyArray
    /\ list_coord_label = <<>> /\ shape_im = <<>> /\ final = EmptyArray
    /\ heatState = "ready"

InitExtractAll ==
    /\ heatOp = "extract_all"
    /\ \E n \in 0..MaxPoints :
         /\ list_coord_label \in [1..n -> LabelPoints]
         /\ fpLoss \in [1..n -> 0..1]
    /\ shape_im \in Dims \X Dims
    /\ \A k \in 1..Len(list_coord_label) :
         OnGrid(list_coord_label[k], <<1, shape_im[1], shape_im[2]>>, 0, 0)
            => fpLoss[k] = 0
    /\ data = <<>> /\ shape = <<>> /\ c_dx = 0 /\ c_dy = 0
    /\ normalizeFlag = FALSE /\ Z = EmptyArray /\ final = EmptyArray
    /\ heatState = "ready"

InitHeat == InitLabel2MaskMap \/ InitExtractAll

Label2MaskMap ==
    /\ heatState = "ready"
    /\ heatOp = "label2maskmap_gt"
    /\ Z' = label2maskmap_gt(data, shape, c_dx, c_dy, normalizeFlag, fpLoss[1])
    /\ heatState' = "done"
    /\ UNCHANGED <<heatOp, data, shape, c_dx, c_dy, normalizeFlag, fpLoss,
                   list_coord_label, shape_im, final>>
    /\ UNCHANGED <<sliceVars, labelVars, kernVars, pipeVars>>

ExtractAll ==
    /\ heatState = "ready"
    /\ heatOp = "extract_all"
    /\ final' = extract_all(list_coord_label, shape_im, fpLoss)
    /\ heatState' = "done"
    /\ UNCHANGED <<heatOp, data, shape, c_dx, c_dy, normalizeFlag, fpLoss, Z,
                   list_coord_label, shape_im>>
    /\ UNCHANGED <<sliceVars, labelVars, kernVars, pipeVars>>

NextHeat == Label2MaskMap \/ ExtractAll

\* ------------------- extract_mid_slice_and_convert_coordinates_to_heatmaps
\* bids is the dataset directory: whether it holds 'derivatives', and its
\* other entries in os.listdir order, each with its intensity file and its
\* label file.  Subject j is entry j; the code's loop index is i - 1.
\* An exception ends the run: err names it and pc stays at the step that
\* raised it.
None == "None"
NoVolume == [shape |-> <<0, 0, 0>>, at |-> <<>>]
PipeImages == {<<0, 1>>}
PipeLabels == Volumes(<<2, 1, 1>>, {0, 3, 25})
ImageFiles == [exists : {TRUE}, vol : PipeImages] \cup {[exists |-> FALSE, vol |-> <<>>]}
LabelFiles == [exists : {TRUE}, vol : PipeLabels] \cup {[exists |-> FALSE, vol |-> NoVolume]}
Entries == [image : ImageFiles, label : LabelFiles]

InitPipeIdle ==
    /\ t = <<>> /\ i = 0 /\ pc = "idle" /\ err = None /\ written = <<>>
    /\ list_points = <<>> /\ bids = [derivatives |-> FALSE, listing |-> <<>>]
    /\ pipeAim = "full" /\ pipeMid = NaN

InitPipe ==
    /\ \E n \in 0..MaxSubjects :
         bids \in [derivatives : BOOLEAN, listing : [1..n -> Entries]]
    \* a label file lives under derivatives/labels
    /\ (\E j \in 1..Len(bids.listing) : bids.listing[j].label.exists)
          => bids.derivatives
    /\ pipeAim \in {"full", "c2"}
    /\ t = <<>>
    /\ i = 0
    /\ pc = "listdir"
    /\ err = None
    /\ written = <<>>
    /\ list_points = <<>>
    /\ pipeMid = NaN

\* Lines 255-258: t = os.listdir(bids_path); t.remove('derivatives').
ListDir ==
    /\ pc = "listdir" /\ err = None
    /\ IF bids.derivatives
       THEN /\ t' = [j \in 1..Len(bids.listing) |-> j]
            /\ i' = 1
            /\ pc' = "loop"
            /\ err' = err
       ELSE /\ err' = "ValueError"
            /\ UNCHANGED <<t, i, pc>>
    /\ UNCHANGED <<written, list_points, bids, pipeAim, pipeMid>>
    /\ UNCHANGED <<sliceVars, labelVars, kernVars, heatVars>>

\* Line 260: the for loop is exhausted and the function returns.
LoopEnd ==
    /\ pc = "loop" /\ err = None
    /\ i > Len(t)
    /\ pc' = "done"
    /\ UNCHANGED <<t, i, err, written, list_points, bids, pipeAim, pipeMid>>
    /\ UNCHANGED <<sliceVars, labelVars, kernVars, heatVars>>

\* The mutation of CheckFile whose else branch leaves the loop (break).
CheckFile_break ==
    /\ pc = "loop" /\ err = None
    /\ i <= Len(t)
    /\ IF bids.listing[t[i]].image.exists
       THEN pc' = "labels" /\ i' = i
       ELSE pc' = "done" /\ i' = i
    /\ UNCHANGED <<t, err, written, list_points, bids, pipeAim, pipeMid>>
    /\ UNCHANGED <<sliceVars, labelVars, kernVars, heatVars>>

\* Lines 261-263 and 289-290: os.path.isfile(path_image), else: pass.
CheckFile ==
    /\ pc = "loop" /\ err = None
    /\ i <= Len(t)
    /\ IF bids.listing[t[i]].image.exists
       THEN pc' = "labels" /\ i' = i
       ELSE pc' = "loop" /\ i' = i + 1
    /\ UNCHANGED <<t, err, written, list_points, bids, pipeAim, pipeMid>>
    /\ UNCHANGED <<sliceVars, labelVars, kernVars, heatVars>>

\* Lines 264-265: list_points = mask2label(path_label, aim=aim).
ExtractLabels ==
    /\ pc = "labels" /\ err = None
    /\ IF bids.listing[t[i]].label.exists
       THEN /\ list_points' = mask2label(bids.listing[t[i]].label.vol, pipeAim)
            /\ pc' = "midslice"
            /\ err' = err
       ELSE /\ err' = "FileNotFoundError"
            /\ UNCHANGED <<pc, list_points>>
    /\ UNCHANGED <<t, i, written, bids, pipeAim, pipeMid>>
    /\ UNCHANGED <<sliceVars, labelVars, kernVars, heatVars>>

\* Lines 266-269: mid = get_midslice_average(path_image, list_points[0][0]).
MidSlice ==
    /\ pc = "midslice" /\ err = None
    /\ IF list_points = <<>>
       THEN /\ err' = "IndexError"
            /\ UNCHANGED <<pc, pipeMid>>
       ELSE /\ pipeMid' = LET im == bids.listing[t[i]].image.vol
                          IN  MeanOver(im, SliceWindow(Extent(im), list_points[1][1]))
            /\ pc' = "reorient"
            /\ err' = err
    /\ UNCHANGED <<t, i, written, list_points, bids, pipeAim>>
    /\ UNCHANGED <<sliceVars, labelVars, kernVars, heatVars>>

\* Line 270: the name imad_utils is bound nowhere (line 8 imports
\* imed_utils), so evaluating it raises NameError before the call.  Lines
\* 271-288, with both nib.save calls, are never reached: written stays empty.
ReorientMid ==
    /\ pc = "reorient" /\ err = None
    /\ err' = "NameError"
    /\ UNCHANGED <<t, i, pc, written, list_points, bids, pipeAim, pipeMid>>
    /\ UNCHANGED <<sliceVars, labelVars, kernVars, heatVars>>

NextPipe == ListDir \/ LoopEnd \/ CheckFile \/ ExtractLabels \/ MidSlice \/ ReorientMid

\* ---------------------------------------------------------- specifications
SliceInit ==
    InitSlice /\ InitLabelIdle /\ InitKernIdle /\ InitHeatIdle /\ InitPipeIdle
LabelInit ==
    InitSliceIdle /\ InitLabel /\ InitKernIdle /\ InitHeatIdle /\ InitPipeIdle
KernInit ==
    InitSliceIdle /\ InitLabelIdle /\ InitKern /\ InitHeatIdle /\ InitPipeIdle
HeatInit ==
    InitSliceIdle /\ InitLabelIdle /\ InitKernIdle /\ InitHeat /\ InitPipeIdle
PipeInit ==
    InitSliceIdle /\ InitLabelIdle /\ InitKernIdle /\ InitHeatIdle /\ InitPipe

SpecSlice == SliceInit /\ [][NextSlice]_vars
SpecLabel == LabelInit /\ [][NextLabel]_vars
SpecKern == KernInit /\ [][NextKern]_vars
SpecHeat == HeatInit /\ [][NextHeat]_vars
SpecPipe == PipeInit /\ [][NextPipe]_vars

Init == SliceInit \/ LabelInit \/ KernInit \/ HeatInit \/ PipeInit
Next == NextSlice \/ NextLabel \/ NextKern \/ NextHeat \/ NextPipe
Spec == Init /\ [][Next]_vars

\* ------------------------------------------------------------------ claims
SliceDone == sliceState = "done"

\* C1: get_midslice_average at index 0 on a volume of extent >= 4 averages
\* the single slice 0 and returns exactly volume[0, :, :], not an empty range.
C1_IndexZeroReturnsSliceZero ==
    (SliceDone /\ ind = 0 /\ Extent(vol) >= 4)
        => (window = {0} /\ ~IsNaN(mid) /\ mid.num = vol[1] * mid.den)

\* C8: get_midslice_average at index = extent - 1 ends without a bounds
\* error and its clamped window holds at least one slice of the volume, so
\* the result is a valid average.
C8_LastIndexValidAverage ==
    (SliceDone /\ ind = Extent(vol) - 1)
        => (window # {} /\ window \subseteq 0..(Extent(vol) - 1) /\ ~IsNaN(mid))

\* The half-width of the rule C9 states: 3; extent - index if index + 3
\* exceeds the extent; then index if index - w < 0.
C9_RuleHalfWidth(extent, index) ==
    LET w1 == IF index + 3 > extent THEN extent - index ELSE 3
    IN  IF index - w1 < 0 THEN index ELSE w1

\* C9: for every extent and index in [0, extent) the half-width used is the
\* one of the stated rule, the slices averaged are exactly index - w up to
\* (not including) index + w, and for an interior index the half-width is 3.
C9_WindowFollowsRule ==
    SliceDone =>
        LET w == C9_RuleHalfWidth(Extent(vol), ind)
        IN  /\ numb_of_slice = w
            /\ window = (ind - w)..(ind + w - 1)
            /\ (ind >= 3 /\ ind + 3 <= Extent(vol)) => numb_of_slice = 3

LabelDone == labelState = "done"
FlatIndex(e, shp) == (e[1] * shp[2] + e[2]) * shp[3] + e[3]
C4_Selected(policy, v) ==
    IF policy = "full" THEN 0 < v /\ v < 30 /\ v # 1 ELSE v = 3

\* C4: mask2label returns, for 'full', exactly the non-zero voxels with value
\* strictly between 0 and 30 and not 1, and for 'c2' exactly the voxels of
\* value 3, sorted ascending by value, equal values in scan order.
C4_SelectionAndOrder ==
    (LabelDone /\ aim \in {"full", "c2"}) =>
        LET l == list_label_image
        IN  /\ {l[k] : k \in 1..Len(l)} =
                  {<<c[1], c[2], c[3], arr.at[c]>> : c \in
                      {c \in Coords(arr.shape) :
                          arr.at[c] # 0 /\ C4_Selected(aim, arr.at[c])}}
            /\ \A a, b \in 1..Len(l) :
                  a < b => /\ l[a][4] <= l[b][4]
                           /\ l[a][4] = l[b][4] =>
                                 FlatIndex(l[a], arr.shape) < FlatIndex(l[b], arr.shape)

KernDone == kernState = "done"

\* C7: gkern(k) is a k-by-k array, symmetric, with all values in [0, 1], and
\* for odd k a single global maximum, at the centre cell.
C7_KernelShape ==
    KernDone =>
        LET k == kernel_size
            centre == <<(k - 1) \div 2, (k - 1) \div 2>>
        IN  /\ kernel.rows = k /\ kernel.cols = k
            /\ ~kernel.nan
            /\ \A p \in CellsOf(kernel) :
                  /\ kernel.at[p] = kernel.at[<<p[2], p[1]>>]
                  /\ 0 <= kernel.at[p] /\ kernel.at[p] <= kernel.den
            /\ k % 2 = 1 =>
                  \A p \in CellsOf(kernel) :
                      p # centre => kernel.at[p] < kernel.at[centre]

HeatDone(op) == heatState = "done" /\ heatOp = op
ShapeTmp == <<1, shape_im[1], shape_im[2]>>
PointCell(pt) == <<pt[2], pt[3]>>
ByteMask(k) == label2maskmap_gt(list_coord_label[k], ShapeTmp, 0, 0, FALSE, fpLoss[k])
UnitMask(k) == label2maskmap_gt(list_coord_label[k], ShapeTmp, 0, 0, TRUE, 0)
PointsOf == 1..Len(list_coord_label)
ByteSum(p) ==
    SumUpTo([k \in 0..(Len(list_coord_label) - 1) |-> ByteMask(k + 1).at[p]],
            Len(list_coord_label))

\* C5 (as stated): extract_all merges unit-normalized heatmaps (peak 1.0) by
\* pixel-wise maximum: every merged value is the maximum of the individual
\* unit heatmaps there, lies in [0, 1], and is 1.0 at each point's position.
C5_UnitMaxMerge ==
    HeatDone("extract_all") =>
        /\ \A p \in CellsOf(final) :
              /\ final.at[p] = SetMax({0} \cup {UnitMask(k).at[p] : k \in PointsOf})
              /\ 0 <= final.at[p] /\ final.at[p] <= final.den
        /\ \A k \in PointsOf :
              PointCell(list_coord_label[k]) \in CellsOf(final)
                 => final.at[PointCell(list_coord_label[k])] = final.den

\* C5 (amended): extract_all merges 8-bit heatmaps (values 0..255, built with
\* normalize left False) by pixel-wise maximum, not sum: every merged value
\* is the maximum of the individual heatmaps there (0 without points), lies
\* in [0, 255], and is 255 at the position of every point on the canvas.
C5_ByteMaxMerge ==
    HeatDone("extract_all") =>
        /\ final.rows = shape_im[1] /\ final.cols = shape_im[2]
        /\ \A p \in CellsOf(final) :
              /\ final.at[p] = SetMax({0} \cup {ByteMask(k).at[p] : k \in PointsOf})
              /\ 0 <= final.at[p] /\ final.at[p] <= 255 * final.den
              /\ Cardinality({k \in PointsOf : ByteMask(k).at[p] > 0}) >= 2
                    => final.at[p] < ByteSum(p)
        /\ \A k \in PointsOf :
              PointCell(list_coord_label[k]) \in CellsOf(final)
                 => final.at[PointCell(list_coord_label[k])] = 255 * final.den

\* Two distinct points on the canvas have been merged: each keeps its peak,
\* and their heatmaps overlap at a pixel where the maximum won over the sum.
C5_Witness ==
    /\ HeatDone("extract_all")
    /\ Len(list_coord_label) = 2
    /\ PointCell(list_coord_label[1]) # PointCell(list_coord_label[2])
    /\ \A k \in PointsOf :
          /\ PointCell(list_coord_label[k]) \in CellsOf(final)
          /\ final.at[PointCell(list_coord_label[k])] = 255 * final.den
    /\ \E p \in CellsOf(final) :
          /\ ByteMask(1).at[p] > 0 /\ ByteMask(2).at[p] > 0
          /\ final.at[p] < ByteSum(p)

\* The point of a call as a triple (a 2-component point gets a leading 0).
Triple == IF Len(data) <= 2 THEN <<0, data[1], data[2]>> ELSE data
IsMaxAt(a, cell) == \A p \in CellsOf(a) : a.at[p] <= a.at[cell]

\* C10 (as stated): with x the second and y the third component, the result
\* has shape (output_shape[1], output_shape[2]) and its maximum is at the
\* cell x + shift.x along the axis of length output_shape[2] and y + shift.y
\* along the axis of length output_shape[1], when that cell is in the grid.
C10_PeakAtSecondPlusShiftX ==
    HeatDone("label2maskmap_gt") =>
        LET cell == <<Triple[3] + c_dy, Triple[2] + c_dx>>
        IN  /\ Z.rows = shape[2] /\ Z.cols = shape[3]
            /\ cell \in CellsOf(Z) => IsMaxAt(Z, cell)

\* C10 (amended): with x the third and y the second component, the result
\* has shape (output_shape[1], output_shape[2]), its maximum is at the cell
\* x + shift.x along the axis of length output_shape[2] and y + shift.y
\* along the axis of length output_shape[1] when that cell is in the grid,
\* and values do not increase as the squared distance from it grows.
C10_PeakAtThirdPlusShiftX ==
    HeatDone("label2maskmap_gt") =>
        LET row == Triple[2] + c_dy
            col == Triple[3] + c_dx
            dist(p) == (p[1] - row) * (p[1] - row) + (p[2] - col) * (p[2] - col)
        IN  /\ Z.rows = shape[2] /\ Z.cols = shape[3]
            /\ ~Z.nan
            /\ <<row, col>> \in CellsOf(Z) => IsMaxAt(Z, <<row, col>>)
            /\ \A p, q \in CellsOf(Z) : dist(p) < dist(q) => Z.at[p] >= Z.at[q]

\* A shifted point with different row and column landed on a cell of a grid
\* that also holds the transposed cell, and the peak is there only.
C10_Witness ==
    /\ HeatDone("label2maskmap_gt")
    /\ c_dx # 0
    /\ Triple[2] + c_dy # Triple[3] + c_dx
    /\ <<Triple[2] + c_dy, Triple[3] + c_dx>> \in CellsOf(Z)
    /\ <<Triple[3] + c_dx, Triple[2] + c_dy>> \in CellsOf(Z)
    /\ \A p \in CellsOf(Z) :
          p # <<Triple[2] + c_dy, Triple[3] + c_dx>>
             => Z.at[p] < Z.at[<<Triple[2] + c_dy, Triple[3] + c_dx>>]

Finished == pc = "done" \/ err # None
Subjects == 1..Len(bids.listing)
BothPresent(j) == bids.listing[j].image.exists /\ bids.listing[j].label.exists
WritesOf(j) == SelectSeq(written, LAMBDA w : w.subject = j)

\* C2: when the run ends, every subject whose intensity volume and label
\* volume are both present has exactly two outputs written, first the '_mid'
\* image, then the 'heatmap' image.
C2_BothOutputsWritten ==
    Finished =>
        \A j \in Subjects :
            BothPresent(j) =>
                WritesOf(j) = <<[subject |-> j, suffix |-> "_mid"],
                                [subject |-> j, suffix |-> "heatmap"]>>

\* The loop has run the file check of subject j.
Visited(j) == pc # "listdir" /\ (j < i \/ (j = i /\ pc # "loop"))
\* Subject j was visited and its intensity file is absent.
Skipped(j) == Visited(j) /\ ~bids.listing[j].image.exists

C6_EmptyLabelsExplicit ==
    (pc = "midslice" /\ list_points = <<>> /\ err # None)
        => (err = "NoLabelsFound" /\ err # "IndexError")

====
